---- MODULE Spec2Model ----
(***************************************************************************)
(* Job board backend: the Job and Application collections and the request  *)
(* handlers of Routes/applicationRoutes.js and of the jobs router          *)
(* (unnamed/part_000), with the Mongoose schemas of server.js (Application)*)
(* and unnamed/part_003 (Job).                                             *)
(*                                                                         *)
(* Every handler is an async function: it runs without interruption up to  *)
(* an await of a storage call, and handlers of different requests          *)
(* interleave at those awaits.  One action of the model is one storage     *)
(* call together with the synchronous code that follows it up to the next  *)
(* await (or the response).  A single-document storage call is atomic.     *)
(***************************************************************************)
EXTENDS Integers, FiniteSets, Sequences, TLC

\* ------------------------------------------------------------------ bounds
MaxJobs == 2      \* Jobs ever created
MaxApps == 2      \* Applications ever created
MaxTime == 2      \* the clock runs from 1 to MaxTime
NumReqs == 2      \* requests served at once
FewJobs == 1      \* Jobs ever created, where a specification narrows it
FewApps == 1      \* Applications ever created, where a specification narrows it
MaxSalary == 2    \* salary figures in requests run from -1 to MaxSalary
MaxTags == 3      \* tags in one request
ListJobs == 3     \* Jobs ever created, where Jobs are listed
MaxLimit == 2     \* page sizes asked for run from 1 to MaxLimit
MaxViews == 2     \* views of one Job
MaxUsers == 2     \* Users ever registered

\* ------------------------------------------------------------- identities
\* req.user as set by the authenticate middleware: an _id and a role.
Users == {"rec", "seek", "adm"}

role(u) == CASE u = "rec" -> "recruiter"
             [] u = "adm" -> "admin"
             [] OTHER     -> "job_seeker"

JobIds == 1..MaxJobs
AppIds == 1..MaxApps
Reqs   == 1..NumReqs
Dates  == 1..MaxTime
\* Deadlines that requests set: a deadline of MaxTime never passes
Deadlines == 1..(MaxTime - 1)

NullDate == 0
NullUser == "null"
NullDoc  == [null |-> TRUE]
NoNotes  == ""

\* applicationSchema.status enum
Statuses == {"pending", "reviewed", "shortlisted", "interviewed", "hired", "rejected"}

\* body("status").isIn([...]): "archived" stands for every value outside the enum
StatusInputs == Statuses \cup {"archived"}

\* body.notes: absent (or empty), or a text
NotesInputs == {NoNotes, "n1"}

\* ------------------------------------------------------------------ state
VARIABLES
    jobs,       \* the Job collection: _id -> document
    apps,       \* the Application collection: _id -> document
    nextJobId,  \* next fresh Job _id
    nextAppId,  \* next fresh Application _id
    now,        \* the clock read by new Date()
    req,        \* the requests being served: slot -> handler frame
    failed,     \* a storage call has failed (thrown) since the start
    scope,      \* what the clients do; fixed by the initial state
    pre,        \* serial only: the collections as they were when the request arrived
    gone,       \* the Applications deleted so far: _id -> the Job each referenced
                \* and the operation that deleted it
    users,      \* the User collection: _id -> document
    nextUserId  \* next fresh User _id

\* The User collection and its _id counter
accounts == <<users, nextUserId>>

vars == <<jobs, apps, nextJobId, nextAppId, now, req, failed, scope, pre, gone, accounts>>

\* scope.serial: one request at a time, and its frame is kept until the response is
\* received; scope.jobs, scope.apps: how many documents are ever created;
\* scope.users: who sends requests; scope.statuses, scope.notes: the status and
\* notes values requests carry; scope.create, scope.update: the kinds of bodies that
\* Job Create and Job Update requests carry; scope.queries: the kinds of queries
\* that List requests carry.
serial == scope.serial

EmptyBody == [k \in {} |-> 0]

Has(body, key) == key \in DOMAIN body

Idle == [op |-> "none", pc |-> "idle", user |-> NullUser, jobId |-> 0, appId |-> 0,
         body |-> EmptyBody, job |-> NullDoc, application |-> NullDoc,
         pend |-> {}, res |-> "none", page |-> <<>>, total |-> 0, totalPages |-> 0,
         threw |-> {}, errors |-> {}]

Free(r) == req[r].pc = "idle"

Quiet == \A q \in Reqs : Free(q)

\* A request arrives in slot r.  Serially, only when nothing else is being served.
Arrive(r) ==
    /\ Free(r)
    /\ serial => (r = 1 /\ Quiet)

NoSnapshot == [jobs |-> EmptyBody, apps |-> EmptyBody]

Snapshot == IF serial THEN [jobs |-> jobs, apps |-> apps] ELSE pre

\* The handler of slot r sends its response.
Finish(r, frame, kind) ==
    IF serial THEN [req EXCEPT ![r] = [frame EXCEPT !.pc = "done", !.pend = {}, !.res = kind]]
              ELSE [req EXCEPT ![r] = Idle]

\* Serially: the response has been received, the frame is dropped.
Respond(r) ==
    /\ req[r].pc = "done"
    /\ req' = [req EXCEPT ![r] = Idle]
    /\ pre' = NoSnapshot
    /\ UNCHANGED <<jobs, apps, nextJobId, nextAppId, now, failed, scope, accounts, gone>>

\* The fields of a document that the handler goes on to read
Select(doc, fields) == [k \in fields |-> doc[k]]

Remove(coll, ids) == [k \in DOMAIN coll \ ids |-> coll[k]]

\* The record of deleted Applications after op deletes the stored ones among ids
Deleted(ids, op) ==
    [a \in DOMAIN gone \cup (ids \cap DOMAIN apps) |->
        IF a \in DOMAIN apps THEN [job |-> apps[a].job, by |-> op] ELSE gone[a]]

\* Empty collections, no request being served.
Start(sc) ==
    /\ jobs = EmptyBody
    /\ apps = EmptyBody
    /\ nextJobId = 1
    /\ nextAppId = 1
    /\ now = 1
    /\ req = [r \in Reqs |-> Idle]
    /\ failed = FALSE
    /\ scope = sc
    /\ pre = NoSnapshot
    /\ gone = EmptyBody
    /\ users = EmptyBody
    /\ nextUserId = 1

\* Time passes.
Tick ==
    /\ now < MaxTime
    /\ serial => Quiet
    /\ now' = now + 1
    /\ UNCHANGED <<jobs, apps, nextJobId, nextAppId, req, failed, scope, accounts, gone, pre>>

\* --------------------------------------------------- POST /api/auth/register
\* body.email: "nomail" stands for every string that is not an email address
EmailInputs == {"a@jobs.io", "b@jobs.io", "nomail"}

isEmail(email) == email # "nomail"

\* req.body of Register.  The routes of part_001 and of the head of Routes/auth.js
\* run body("email").isEmail(); the second /register of Routes/auth.js runs no
\* validator.
RegisterBodies ==
    {[email |-> e, userType |-> t, validated |-> v] :
        e \in EmailInputs, t \in {"job_seeker", "recruiter"}, v \in BOOLEAN}

\* No unique index on email: every insert is accepted.
NoEmailIndex(email) == FALSE

\* UserSchema.email { unique: true }: an insert of a second document with the same
\* email is refused (E11000)
DuplicateEmail(email) == \E u \in DOMAIN users : users[u].email = email

\* new User({ name, email, password, userType })
NewUser(body) == [email |-> body.email, userType |-> body.userType]

RegisterStart(r) ==
    \E body \in RegisterBodies :
       /\ Arrive(r)
       /\ nextUserId + Cardinality({q \in Reqs : req[q].op = "register"}) <= MaxUsers
       /\ pre' = Snapshot
       /\ LET frame == [Idle EXCEPT !.op = "register", !.body = body]
          IN IF body.validated /\ ~isEmail(body.email)
             THEN req' = Finish(r, [frame EXCEPT !.errors = {"email"}], "ValidationError")
             ELSE req' = [req EXCEPT ![r] = [frame EXCEPT !.pc = "find"]]
       /\ UNCHANGED <<jobs, apps, nextJobId, nextAppId, now, failed, scope, accounts, gone>>

\* User.findOne({ email }), then if (user): 400 "User already exists"
RegisterFind(r) ==
    /\ req[r].op = "register" /\ req[r].pc = "find"
    /\ IF \E u \in DOMAIN users : users[u].email = req[r].body.email
       THEN req' = Finish(r, req[r], "UserExists")
       ELSE req' = [req EXCEPT ![r].pc = "save"]
    /\ UNCHANGED <<jobs, apps, nextJobId, nextAppId, now, failed, scope, accounts, gone, pre>>

\* user.save(): the insert, refused by the unique index when the email is stored
\* by now; the catch answers 500
RegisterSave(r) ==
    /\ req[r].op = "register" /\ req[r].pc = "save"
    /\ IF DuplicateEmail(req[r].body.email)
       THEN /\ req' = Finish(r, req[r], "Unavailable")
            /\ failed' = TRUE
            /\ UNCHANGED accounts
       ELSE /\ users' = (nextUserId :> NewUser(req[r].body)) @@ users
            /\ nextUserId' = nextUserId + 1
            /\ req' = Finish(r, req[r], "Created")
            /\ UNCHANGED failed
    /\ UNCHANGED <<jobs, apps, nextJobId, nextAppId, now, scope, gone, pre>>

\* ------------------------------------------------------------ POST /api/jobs
\* Request bodies of Create: the keys that reach the Job document.  A body that
\* names no type carries full-time, and its other required fields are well-formed.
CreateBodies ==
    {EmptyBody, [isActive |-> FALSE]} \cup {[applicationDeadline |-> d] : d \in Deadlines}

\* jobSchema.type enum
JobTypes == {"full-time", "part-time", "contract", "internship", "remote"}

\* body.type: "gig" stands for every value outside the enum
TypeInputs == {"full-time", "remote", "gig"}

\* Salary figures in request bodies
Amounts == (-1)..MaxSalary

\* body.salary: min and max are each given or not
SalaryInputs ==
    {EmptyBody} \cup {[min |-> a] : a \in Amounts} \cup {[max |-> a] : a \in Amounts}
      \cup {[min |-> a, max |-> b] : a, b \in Amounts}

\* body.title: a string, here a sequence of characters
TitleInputs == {<<"d", "e", "v">>, <<" ", "q", "a">>}

\* A tag is a string, here a sequence of characters
TagInputs == {<<"R">>, <<"r">>, <<" ", "R", " ">>, <<"g">>, <<"g", " ">>}

\* body.tags: lists of at most n tags
RECURSIVE TagLists(_)
TagLists(n) ==
    IF n = 0 THEN {<<>>}
    ELSE LET shorter == TagLists(n - 1)
         IN shorter \cup {Append(l, t) : l \in {m \in shorter : Len(m) = n - 1},
                                         t \in TagInputs}

\* Request bodies of Update
UpdateBodies ==
    {[isActive |-> b] : b \in BOOLEAN}
      \cup {[applicationDeadline |-> d] : d \in Deadlines}
      \cup {[applicationsCount |-> MaxApps + 1]}

\* Request bodies of Update with keys that are not allowed
ForeignBodies ==
    {[isActive |-> FALSE, createdBy |-> "seek", viewsCount |-> 1],
     [createdBy |-> "adm", applicationsCount |-> MaxApps + 1]}

\* The request bodies of each kind
Bodies(kind) ==
    CASE kind = "create"  -> CreateBodies
      [] kind = "update"  -> UpdateBodies
      [] kind = "foreign" -> ForeignBodies
      [] kind = "plain"   -> {EmptyBody}
      [] kind = "active"  -> {[isActive |-> b] : b \in BOOLEAN}
      [] kind = "form"    -> {[title |-> t, type |-> x] @@ y :
                                 t \in TitleInputs, x \in {"full-time", "gig"},
                                 y \in {EmptyBody} \cup
                                       {[salary |-> z] : z \in {[min |-> -1],
                                                                [min |-> MaxSalary, max |-> 1],
                                                                [min |-> 1, max |-> MaxSalary]}}}
      [] kind = "salary"  -> {[salary |-> x] : x \in SalaryInputs}
      [] kind = "type"    -> {[type |-> x] : x \in TypeInputs}
      [] kind = "tags"    -> {[tags |-> x] : x \in TagLists(MaxTags)}
      [] kind = "listing" -> {[type |-> "full-time"], [type |-> "remote"],
                              [type |-> "full-time", isActive |-> FALSE],
                              [type |-> "full-time", salary |-> [min |-> 1, max |-> MaxSalary]]}

\* tag.toLowerCase()
toLowerCase(tag) == [i \in DOMAIN tag |-> IF tag[i] = "R" THEN "r" ELSE tag[i]]

RECURSIVE trimStart(_)
trimStart(tag) == IF tag # <<>> /\ Head(tag) = " " THEN trimStart(Tail(tag)) ELSE tag

RECURSIVE trimEnd(_)
trimEnd(tag) ==
    IF tag # <<>> /\ tag[Len(tag)] = " " THEN trimEnd(SubSeq(tag, 1, Len(tag) - 1)) ELSE tag

\* tag.trim()
trim(tag) == trimEnd(trimStart(tag))

\* [...new Set(list)]: the first occurrence of every element, in order
RECURSIVE Unique(_)
Unique(list) ==
    IF list = <<>> THEN <<>>
    ELSE LET front == Unique(SubSeq(list, 1, Len(list) - 1))
             tl    == list[Len(list)]
         IN IF \E i \in DOMAIN front : front[i] = tl THEN front ELSE Append(front, tl)

\* The tags lowercased but not trimmed.
LowerCaseOnly(tags) == Unique([i \in DOMAIN tags |-> toLowerCase(tags[i])])

\* [...new Set(tags.map((tag) => tag.toLowerCase().trim()))]
NormalizeTags(tags) == Unique([i \in DOMAIN tags |-> trim(toLowerCase(tags[i]))])

\* jobData / updates: the body with its tags list, if any, normalised
WithTags(body) ==
    IF Has(body, "tags") THEN [body EXCEPT !.tags = NormalizeTags(@)] ELSE body

\* jobSchema.tags: { trim: true, lowercase: true } applied to each element on cast
CastTags(tags) == [i \in DOMAIN tags |-> toLowerCase(trim(tags[i]))]

\* isEmployerOrAdmin
isEmployerOrAdmin(u) == role(u) \in {"recruiter", "admin"}

Field(body, key, default) == IF Has(body, key) THEN body[key] ELSE default

\* new Job(jobData): the body's fields, the schema defaults for the others
NewJob(u, body) ==
    [createdBy           |-> u,
     isActive            |-> Field(body, "isActive", TRUE),
     applicationDeadline |-> Field(body, "applicationDeadline", NullDate),
     applicationsCount   |-> Field(body, "applicationsCount", 0),
     viewsCount          |-> Field(body, "viewsCount", 0),
     type                |-> Field(body, "type", "full-time"),
     salary              |-> Field(body, "salary", EmptyBody),
     tags                |-> CastTags(Field(body, "tags", <<>>))]

\* The express-validator chain of Create, as far as the modelled body keys go:
\* body("title").trim().isLength({ min: 3, max: 100 }), body("type").isIn([...]),
\* body("salary.min") and body("salary.max") optional and numeric (every figure
\* is); errors.array() has an entry for every failing field
CreateErrors(body) ==
    {f \in {"title"} : Has(body, "title") /\ Len(trim(body.title)) < 3}
      \cup {f \in {"type"} : Has(body, "type") /\ body.type \notin JobTypes}

\* errors.isEmpty()
ValidCreate(body) == CreateErrors(body) = {}

\* The schema validators that a write runs: salary.min and salary.max min: [0, ...],
\* type enum
SchemaValid(fields) ==
    /\ Has(fields, "salary") => \A k \in DOMAIN fields.salary : fields.salary[k] >= 0
    /\ Has(fields, "type") => fields.type \in JobTypes

\* jobSchema.pre("save"):
\* this.salary.min && this.salary.max && this.salary.min > this.salary.max
SalaryOutOfOrder(doc) ==
    /\ Has(doc.salary, "min") /\ doc.salary.min # 0
    /\ Has(doc.salary, "max") /\ doc.salary.max # 0
    /\ doc.salary.min > doc.salary.max

\* The whole handler: isEmployerOrAdmin, the validators, the tags, job.save()
CreateJob(r) ==
    \E u \in scope.users, kind \in scope.create : \E body \in Bodies(kind) :
       /\ Arrive(r)
       /\ nextJobId <= scope.jobs
       /\ pre' = Snapshot
       /\ LET frame == [Idle EXCEPT !.op = "createJob", !.user = u, !.body = body]
              doc   == NewJob(u, WithTags(body))
          IN IF ~isEmployerOrAdmin(u)
             THEN /\ req' = Finish(r, frame, "Forbidden")
                  /\ UNCHANGED <<jobs, nextJobId, failed>>
             ELSE IF ~ValidCreate(body)
             THEN /\ req' = Finish(r, [frame EXCEPT !.errors = CreateErrors(body)],
                                   "ValidationError")
                  /\ UNCHANGED <<jobs, nextJobId, failed>>
             ELSE IF ~SchemaValid(doc) \/ SalaryOutOfOrder(doc)
             THEN /\ req' = Finish(r, frame, "Unavailable")
                  /\ failed' = TRUE
                  /\ UNCHANGED <<jobs, nextJobId>>
             ELSE /\ jobs' = (nextJobId :> doc) @@ jobs
                  /\ nextJobId' = nextJobId + 1
                  /\ req' = Finish(r, [frame EXCEPT !.jobId = nextJobId], "Created")
                  /\ UNCHANGED failed
       /\ UNCHANGED <<apps, nextAppId, now, scope, accounts, gone>>

\* ---------------------------------------------------- POST /api/applications
IsURL(link) == link = "https://cv"

ResumeLinks == {"https://cv", "cv"}

\* The Applications of applicant u for Job j
Existing(j, u) == {a \in DOMAIN apps : apps[a].job = j /\ apps[a].applicant = u}

\* No unique index on (job, applicant): every insert is accepted.
NoUniqueIndex(j, u) == FALSE

\* applicationSchema.index({ job: 1, applicant: 1 }, { unique: true }): an insert of
\* a second document with the same job and applicant is refused
DuplicateKey(j, u) == Existing(j, u) # {}

\* The existence check left out.
NeverApplied(j, u) == FALSE

\* existingApplication: Application.findOne({ job, applicant }) finds a document
AlreadyApplied(j, u) == Existing(j, u) # {}

\* The own-posting check left out.
NeverOwnPosting(job, u) == FALSE

\* job.createdBy.toString() === req.user._id.toString()
OwnPosting(job, u) == job.createdBy = u

\* The deadline check left out.
DeadlineIgnored(job, t) == FALSE

\* job.applicationDeadline && new Date() > job.applicationDeadline
DeadlinePassed(job, t) ==
    job.applicationDeadline # NullDate /\ t > job.applicationDeadline

\* new Application({ job, applicant, resumeLink, coverLetter }): the schema defaults
NewApplication(j, u) ==
    [job |-> j, applicant |-> u, status |-> "pending", notes |-> NoNotes,
     reviewedAt |-> NullDate, reviewedBy |-> NullUser]

\* applicationSchema.pre("save"): set reviewedAt when status changes
PreSave(doc, modified, t) ==
    IF "status" \in modified /\ doc.status # "pending" /\ doc.reviewedAt = NullDate
    THEN [doc EXCEPT !.reviewedAt = t]
    ELSE doc

InFlight(op) == Cardinality({q \in Reqs : req[q].op = op /\ ~Free(q)})

ApplyStart(r) ==
    \E u \in scope.users, j \in JobIds, link \in ResumeLinks :
       /\ Arrive(r)
       /\ nextAppId + InFlight("apply") <= scope.apps
       /\ pre' = Snapshot
       /\ LET frame == [Idle EXCEPT !.op = "apply", !.user = u, !.jobId = j,
                                    !.body = [resumeLink |-> link]]
          IN IF ~IsURL(link)
             THEN req' = Finish(r, frame, "ValidationError")
             ELSE req' = [req EXCEPT ![r] = [frame EXCEPT !.pc = "findJob"]]
       /\ UNCHANGED <<jobs, apps, nextJobId, nextAppId, now, failed, scope, accounts, gone>>

\* Job.findById(jobId), then the isActive and deadline checks
ApplyFindJob(r) ==
    /\ req[r].op = "apply" /\ req[r].pc = "findJob"
    /\ LET f == req[r]
           j == f.jobId
       IN IF j \notin DOMAIN jobs
          THEN req' = Finish(r, f, "NotFound")
          ELSE IF ~jobs[j].isActive
          THEN req' = Finish(r, f, "InvalidOperation")
          ELSE IF DeadlinePassed(jobs[j], now)
          THEN req' = Finish(r, f, "InvalidOperation")
          ELSE req' = [req EXCEPT ![r] = [f EXCEPT !.job = Select(jobs[j], {"createdBy"}),
                                                   !.pc = "findExisting"]]
    /\ UNCHANGED <<jobs, apps, nextJobId, nextAppId, now, failed, scope, accounts, gone, pre>>

\* Application.findOne({ job, applicant }), then the own-posting check
ApplyFindExisting(r) ==
    /\ req[r].op = "apply" /\ req[r].pc = "findExisting"
    /\ LET f == req[r]
       IN IF AlreadyApplied(f.jobId, f.user)
          THEN req' = Finish(r, f, "Conflict")
          ELSE IF OwnPosting(f.job, f.user)
          THEN req' = Finish(r, f, "InvalidOperation")
          ELSE req' = [req EXCEPT ![r] = [f EXCEPT !.pc = "save"]]
    /\ UNCHANGED <<jobs, apps, nextJobId, nextAppId, now, failed, scope, accounts, gone, pre>>

\* application.save(): the insert is refused by the unique index (E11000)
ApplySave(r) ==
    /\ req[r].op = "apply" /\ req[r].pc = "save"
    /\ LET f == req[r]
       IN IF DuplicateKey(f.jobId, f.user)
          THEN /\ req' = Finish(r, f, "Unavailable")
               /\ failed' = TRUE
               /\ UNCHANGED <<apps, nextAppId>>
          ELSE /\ apps' = (nextAppId :> PreSave(NewApplication(f.jobId, f.user),
                                                 {"job", "applicant"}, now)) @@ apps
               /\ nextAppId' = nextAppId + 1
               /\ req' = [req EXCEPT ![r] = [f EXCEPT !.appId = nextAppId, !.pc = "inc"]]
               /\ UNCHANGED failed
    /\ UNCHANGED <<jobs, nextJobId, now, scope, accounts, gone, pre>>

\* Job.findByIdAndUpdate(id, { $inc: { applicationsCount: delta } })
IncApplicationsCount(j, delta) ==
    IF j \in DOMAIN jobs
    THEN [jobs EXCEPT ![j].applicationsCount = @ + delta]
    ELSE jobs

\* The counter increment left out.
ApplyNoInc(r) ==
    /\ req[r].op = "apply" /\ req[r].pc = "inc"
    /\ req' = Finish(r, req[r], "Created")
    /\ UNCHANGED <<jobs, apps, nextJobId, nextAppId, now, failed, scope, accounts, gone, pre>>

ApplyInc(r) ==
    /\ req[r].op = "apply" /\ req[r].pc = "inc"
    /\ jobs' = IncApplicationsCount(req[r].jobId, 1)
    /\ req' = Finish(r, req[r], "Created")
    /\ UNCHANGED <<apps, nextJobId, nextAppId, now, failed, scope, accounts, gone, pre>>

\* ------------------------------------------- PUT /api/applications/:id/status
\* The requester assigned to applicant instead of reviewedBy.
AssignApplicant(doc, status, notes, u, t) ==
    [doc EXCEPT !.status     = status,
                !.notes      = IF notes # NoNotes THEN notes ELSE @,
                !.applicant  = u,
                !.reviewedAt = t]

\* The handler's assignments to the loaded document
AssignReview(doc, status, notes, u, t) ==
    [doc EXCEPT !.status     = status,
                !.notes      = IF notes # NoNotes THEN notes ELSE @,
                !.reviewedBy = u,
                !.reviewedAt = t]

\* The paths Mongoose marks modified: those whose value differs from the loaded one
ModifiedPaths(old, new) == {p \in DOMAIN new : new[p] # old[p]}

\* document.save() of a loaded document: $set of the modified paths
SetPaths(stored, doc, paths) ==
    [p \in DOMAIN stored |-> IF p \in paths THEN doc[p] ELSE stored[p]]

\* The authorization check left out.
AnyoneMayReview(job, u) == TRUE

\* Only the Job's owner may review.
OwnerMayReview(job, u) == job.createdBy = u

\* application.job.createdBy is the requester, or the requester is an admin
MayReview(job, u) == job.createdBy = u \/ role(u) = "admin"

UpdateStatusStart(r) ==
    \E u \in scope.users, a \in AppIds, status \in scope.statuses, notes \in scope.notes :
       /\ Arrive(r)
       /\ pre' = Snapshot
       /\ LET frame == [Idle EXCEPT !.op = "updateStatus", !.user = u, !.appId = a,
                                    !.body = [status |-> status, notes |-> notes]]
          IN IF status \notin Statuses
             THEN req' = Finish(r, frame, "ValidationError")
             ELSE req' = [req EXCEPT ![r] = [frame EXCEPT !.pc = "find"]]
       /\ UNCHANGED <<jobs, apps, nextJobId, nextAppId, now, failed, scope, accounts, gone>>

\* Application.findById(id)
UpdateStatusFind(r) ==
    /\ req[r].op = "updateStatus" /\ req[r].pc = "find"
    /\ LET f == req[r]
       IN IF f.appId \notin DOMAIN apps
          THEN req' = Finish(r, f, "NotFound")
          ELSE req' = [req EXCEPT ![r] = [f EXCEPT !.application = apps[f.appId],
                                                   !.pc = "populate"]]
    /\ UNCHANGED <<jobs, apps, nextJobId, nextAppId, now, failed, scope, accounts, gone, pre>>

\* .populate("job", "createdBy title company"), the authorization check and the
\* assignments; application.job is null when the Job is gone, and reading
\* application.job.createdBy then throws
UpdateStatusPopulate(r) ==
    /\ req[r].op = "updateStatus" /\ req[r].pc = "populate"
    /\ LET f == req[r]
           j == f.application.job
       IN IF j \notin DOMAIN jobs
          THEN /\ req' = Finish(r, f, "Unavailable")
               /\ failed' = TRUE
          ELSE IF ~MayReview(jobs[j], f.user)
          THEN /\ req' = Finish(r, f, "Forbidden")
               /\ UNCHANGED failed
          ELSE LET doc == AssignReview(f.application, f.body.status, f.body.notes,
                                       f.user, now)
               IN /\ req' = [req EXCEPT ![r] =
                               [f EXCEPT !.application = doc,
                                         !.pend = ModifiedPaths(f.application, doc),
                                         !.pc = "save"]]
                  /\ UNCHANGED failed
    /\ UNCHANGED <<jobs, apps, nextJobId, nextAppId, now, scope, accounts, gone, pre>>

\* application.save(): DocumentNotFoundError when the document is gone
UpdateStatusSave(r) ==
    /\ req[r].op = "updateStatus" /\ req[r].pc = "save"
    /\ LET f == req[r]
           doc == PreSave(f.application, f.pend, now)
       IN IF f.appId \notin DOMAIN apps
          THEN /\ req' = Finish(r, f, "Unavailable")
               /\ failed' = TRUE
               /\ UNCHANGED apps
          ELSE /\ apps' = [apps EXCEPT ![f.appId] =
                             SetPaths(@, doc, f.pend \cup ModifiedPaths(f.application, doc))]
               /\ req' = Finish(r, f, "OK")
               /\ UNCHANGED failed
    /\ UNCHANGED <<jobs, nextJobId, nextAppId, now, scope, accounts, gone, pre>>

\* ------------------------------------------------ DELETE /api/applications/:id
\* "rejected" left out of the list.
ProcessedHiredOnly(status) == status = "hired"

\* ["hired", "rejected"].includes(application.status)
Processed(status) == status \in {"hired", "rejected"}

\* The Job's owner and an admin may withdraw too.
ReviewerMayWithdraw(application, u) ==
    application.applicant = u \/ role(u) \in {"recruiter", "admin"}

\* application.applicant.toString() === req.user._id.toString()
IsApplicant(application, u) == application.applicant = u

WithdrawStart(r) ==
    \E u \in scope.users, a \in AppIds :
       /\ Arrive(r)
       /\ pre' = Snapshot
       /\ req' = [req EXCEPT ![r] = [Idle EXCEPT !.op = "withdraw", !.user = u,
                                                 !.appId = a, !.pc = "find"]]
       /\ UNCHANGED <<jobs, apps, nextJobId, nextAppId, now, failed, scope, accounts, gone>>

\* Application.findById(id), then the applicant and status checks
WithdrawFind(r) ==
    /\ req[r].op = "withdraw" /\ req[r].pc = "find"
    /\ LET f == req[r]
       IN IF f.appId \notin DOMAIN apps
          THEN req' = Finish(r, f, "NotFound")
          ELSE IF ~IsApplicant(apps[f.appId], f.user)
          THEN req' = Finish(r, f, "Forbidden")
          ELSE IF Processed(apps[f.appId].status)
          THEN req' = Finish(r, f, "InvalidOperation")
          ELSE req' = [req EXCEPT ![r] = [f EXCEPT !.jobId = apps[f.appId].job,
                                                   !.pend = {"delete", "inc"},
                                                   !.pc = "all"]]
    /\ UNCHANGED <<jobs, apps, nextJobId, nextAppId, now, failed, scope, accounts, gone, pre>>

\* One of the two calls of a Promise.all completes; the response follows the last,
\* unless a call has been rejected and the catch has answered already.
Settle(r, call) ==
    IF req[r].pend = {call}
    THEN Finish(r, req[r], IF req[r].threw = {} THEN "OK" ELSE "Unavailable")
    ELSE [req EXCEPT ![r].pend = @ \ {call}]

\* One of the two calls of a Promise.all is rejected: the Promise.all rejects and
\* the catch answers 500 at once, while the other call, already issued, still runs.
\* The frame is kept until the other call has settled too.
Reject(r, call) ==
    LET frame == [req[r] EXCEPT !.threw = @ \cup {call}]
    IN IF req[r].pend = {call}
       THEN Finish(r, frame, "Unavailable")
       ELSE [req EXCEPT ![r] = [frame EXCEPT !.pend = @ \ {call}]]

\* Promise.all: Application.findByIdAndDelete(id)
WithdrawDelete(r) ==
    /\ req[r].op = "withdraw" /\ req[r].pc = "all" /\ "delete" \in req[r].pend
    /\ apps' = Remove(apps, {req[r].appId})
    /\ gone' = Deleted({req[r].appId}, "withdraw")
    /\ req' = Settle(r, "delete")
    /\ UNCHANGED <<jobs, nextJobId, nextAppId, now, failed, scope, accounts, pre>>

\* Promise.all: Job.findByIdAndUpdate(application.job, { $inc: { applicationsCount: -1 } })
WithdrawInc(r) ==
    /\ req[r].op = "withdraw" /\ req[r].pc = "all" /\ "inc" \in req[r].pend
    /\ jobs' = IncApplicationsCount(req[r].jobId, -1)
    /\ req' = Settle(r, "inc")
    /\ UNCHANGED <<apps, nextJobId, nextAppId, now, failed, scope, accounts, gone, pre>>

\* --------------------------------------------------- GET /api/applications/:id
\* Only the applicant may view.
ApplicantOnly(application, job, u) == application.applicant = u

\* isApplicant || isJobCreator || isAdmin
MayView(application, job, u) ==
    application.applicant = u \/ job.createdBy = u \/ role(u) = "admin"

GetOneStart(r) ==
    \E u \in scope.users, a \in AppIds :
       /\ Arrive(r)
       /\ pre' = Snapshot
       /\ req' = [req EXCEPT ![r] = [Idle EXCEPT !.op = "getOne", !.user = u,
                                                 !.appId = a, !.pc = "find"]]
       /\ UNCHANGED <<jobs, apps, nextJobId, nextAppId, now, failed, scope, accounts, gone>>

\* Application.findById(id)
GetOneFind(r) ==
    /\ req[r].op = "getOne" /\ req[r].pc = "find"
    /\ LET f == req[r]
       IN IF f.appId \notin DOMAIN apps
          THEN req' = Finish(r, f, "NotFound")
          ELSE req' = [req EXCEPT ![r] = [f EXCEPT !.application = apps[f.appId],
                                                   !.pc = "populate"]]
    /\ UNCHANGED <<jobs, apps, nextJobId, nextAppId, now, failed, scope, accounts, gone, pre>>

\* .populate("job", ...), then the access check; application.job is null when the
\* Job is gone, and reading application.job.createdBy then throws
GetOnePopulate(r) ==
    /\ req[r].op = "getOne" /\ req[r].pc = "populate"
    /\ LET f == req[r]
           j == f.application.job
       IN IF j \notin DOMAIN jobs
          THEN /\ req' = Finish(r, f, "Unavailable")
               /\ failed' = TRUE
          ELSE IF ~MayView(f.application, jobs[j], f.user)
          THEN /\ req' = Finish(r, [f EXCEPT !.application = NullDoc], "Forbidden")
               /\ UNCHANGED failed
          ELSE /\ req' = Finish(r, f, "OK")
               /\ UNCHANGED failed
    /\ UNCHANGED <<jobs, apps, nextJobId, nextAppId, now, scope, accounts, gone, pre>>

\* ---------------------------------------------- GET /api/applications/job/:jobId
\* query.page
Pages == 1..MaxApps

\* query.limit: 0 stands for every value outside 1..50
Limits == 0..MaxLimit

\* query.status, when given
StatusFilters == {"hired", "archived"}

\* The queries of ListForJob
ListQueries ==
    {[page |-> p, limit |-> l] : p \in Pages, l \in Limits}
      \cup {[page |-> p, limit |-> l, status |-> st] :
               p \in Pages, l \in Limits, st \in StatusFilters}

\* The validators of page, limit and status
ValidList(q) ==
    /\ q.page >= 1
    /\ q.limit >= 1 /\ q.limit <= 50
    /\ Has(q, "status") => q.status \in Statuses

\* The Job left out of the query.
OfAnyJob(j, q) ==
    {a \in DOMAIN apps : Has(q, "status") => apps[a].status = q.status}

\* queryObj = { job: jobId }, and queryObj.status = status when a status is given
OfJob(j, q) ==
    {a \in DOMAIN apps : /\ apps[a].job = j
                         /\ Has(q, "status") => apps[a].status = q.status}

\* .sort({ createdAt: -1 }): documents are stamped when they are inserted, so the
\* newest has the greatest _id
RECURSIVE Newest(_)
Newest(ids) ==
    IF ids = {} THEN <<>>
    ELSE LET top == CHOOSE a \in ids : \A b \in ids : b <= a
         IN <<top>> \o Newest(ids \ {top})

\* skip = (page - 1) * limit
Skip(q) == (q.page - 1) * q.limit

\* .skip(skip).limit(limit)
SkipLimit(list, skip, limit) ==
    SubSeq(list, skip + 1, IF skip + limit < Len(list) THEN skip + limit ELSE Len(list))

ListForJobStart(r) ==
    \E u \in scope.users, j \in JobIds, q \in ListQueries :
       /\ Arrive(r)
       /\ pre' = Snapshot
       /\ LET frame == [Idle EXCEPT !.op = "listForJob", !.user = u, !.jobId = j,
                                    !.body = q]
          IN IF ~ValidList(q)
             THEN req' = Finish(r, frame, "ValidationError")
             ELSE req' = [req EXCEPT ![r] = [frame EXCEPT !.pc = "find"]]
       /\ UNCHANGED <<jobs, apps, nextJobId, nextAppId, now, failed, scope, accounts, gone>>

\* job.createdBy is the requester, or the requester is an admin
MayList(job, u) == job.createdBy = u \/ role(u) = "admin"

\* Job.findById(jobId), then the access check
ListForJobFind(r) ==
    /\ req[r].op = "listForJob" /\ req[r].pc = "find"
    /\ LET f == req[r]
       IN IF f.jobId \notin DOMAIN jobs
          THEN req' = Finish(r, f, "NotFound")
          ELSE IF ~MayList(jobs[f.jobId], f.user)
          THEN req' = Finish(r, f, "Forbidden")
          ELSE req' = [req EXCEPT ![r] = [f EXCEPT !.pend = {"find", "count"},
                                                   !.pc = "all"]]
    /\ UNCHANGED <<jobs, apps, nextJobId, nextAppId, now, failed, scope, accounts, gone, pre>>

\* One of the two queries of a Promise.all completes; the response follows the last.
Answer(r, frame, call) ==
    IF frame.pend = {call}
    THEN Finish(r, frame, "OK")
    ELSE [req EXCEPT ![r] = [frame EXCEPT !.pend = @ \ {call}]]

\* Promise.all: Application.find(queryObj).sort(...).skip(skip).limit(limit)
ListForJobPage(r) ==
    /\ req[r].op = "listForJob" /\ req[r].pc = "all" /\ "find" \in req[r].pend
    /\ LET f == req[r]
           found == SkipLimit(Newest(OfJob(f.jobId, f.body)), Skip(f.body), f.body.limit)
       IN req' = Answer(r, [f EXCEPT !.page = found], "find")
    /\ UNCHANGED <<jobs, apps, nextJobId, nextAppId, now, failed, scope, accounts, gone, pre>>

\* Promise.all: Application.countDocuments(queryObj)
ListForJobCount(r) ==
    /\ req[r].op = "listForJob" /\ req[r].pc = "all" /\ "count" \in req[r].pend
    /\ LET f == req[r]
       IN req' = Answer(r, [f EXCEPT !.total = Cardinality(OfJob(f.jobId, f.body))],
                        "count")
    /\ UNCHANGED <<jobs, apps, nextJobId, nextAppId, now, failed, scope, accounts, gone, pre>>

\* ------------------------------------------------- GET /api/applications/my
\* queryObj = { applicant: req.user._id }, and queryObj.status = status when a
\* status is given
OfApplicant(u, q) ==
    {a \in DOMAIN apps : /\ apps[a].applicant = u
                         /\ Has(q, "status") => apps[a].status = q.status}

ListMineStart(r) ==
    \E u \in scope.users, q \in ListQueries :
       /\ Arrive(r)
       /\ pre' = Snapshot
       /\ LET frame == [Idle EXCEPT !.op = "listMine", !.user = u, !.body = q]
          IN IF ~ValidList(q)
             THEN req' = Finish(r, frame, "ValidationError")
             ELSE req' = [req EXCEPT ![r] = [frame EXCEPT !.pend = {"find", "count"},
                                                          !.pc = "all"]]
       /\ UNCHANGED <<jobs, apps, nextJobId, nextAppId, now, failed, scope, accounts, gone>>

\* Promise.all: Application.find(queryObj).sort(...).skip(skip).limit(limit)
ListMinePage(r) ==
    /\ req[r].op = "listMine" /\ req[r].pc = "all" /\ "find" \in req[r].pend
    /\ LET f == req[r]
           found == SkipLimit(Newest(OfApplicant(f.user, f.body)), Skip(f.body),
                              f.body.limit)
       IN req' = Answer(r, [f EXCEPT !.page = found], "find")
    /\ UNCHANGED <<jobs, apps, nextJobId, nextAppId, now, failed, scope, accounts, gone, pre>>

\* Promise.all: Application.countDocuments(queryObj)
ListMineCount(r) ==
    /\ req[r].op = "listMine" /\ req[r].pc = "all" /\ "count" \in req[r].pend
    /\ LET f == req[r]
       IN req' = Answer(r, [f EXCEPT !.total = Cardinality(OfApplicant(f.user, f.body))],
                       "count")
    /\ UNCHANGED <<jobs, apps, nextJobId, nextAppId, now, failed, scope, accounts, gone, pre>>

\* ------------------------------------------------------ DELETE /api/jobs/:id
\* The authorization check left out.
AnyoneMayManage(job, u) == TRUE

\* job.createdBy is the requester, or the requester is an admin
MayManage(job, u) == job.createdBy = u \/ role(u) = "admin"

DeleteJobStart(r) ==
    \E u \in scope.users, j \in JobIds :
       /\ Arrive(r)
       /\ pre' = Snapshot
       /\ req' = [req EXCEPT ![r] = [Idle EXCEPT !.op = "deleteJob", !.user = u,
                                                 !.jobId = j, !.pc = "find"]]
       /\ UNCHANGED <<jobs, apps, nextJobId, nextAppId, now, failed, scope, accounts, gone>>

\* Job.findById(id), then the authorization check
DeleteJobFind(r) ==
    /\ req[r].op = "deleteJob" /\ req[r].pc = "find"
    /\ LET f == req[r]
       IN IF f.jobId \notin DOMAIN jobs
          THEN req' = Finish(r, f, "NotFound")
          ELSE IF ~MayManage(jobs[f.jobId], f.user)
          THEN req' = Finish(r, f, "Forbidden")
          ELSE req' = [req EXCEPT ![r] = [f EXCEPT !.pend = {"deleteJob", "deleteMany"},
                                                   !.pc = "all"]]
    /\ UNCHANGED <<jobs, apps, nextJobId, nextAppId, now, failed, scope, accounts, gone, pre>>

\* Promise.all: Job.findByIdAndDelete(id)
DeleteJobDoc(r) ==
    /\ req[r].op = "deleteJob" /\ req[r].pc = "all" /\ "deleteJob" \in req[r].pend
    /\ jobs' = Remove(jobs, {req[r].jobId})
    /\ req' = Settle(r, "deleteJob")
    /\ UNCHANGED <<apps, nextJobId, nextAppId, now, failed, scope, accounts, gone, pre>>

\* Promise.all: Job.findByIdAndDelete(id) is rejected by the storage
DeleteJobDocFails(r) ==
    /\ req[r].op = "deleteJob" /\ req[r].pc = "all" /\ "deleteJob" \in req[r].pend
    /\ req' = Reject(r, "deleteJob")
    /\ failed' = TRUE
    /\ UNCHANGED <<jobs, apps, nextJobId, nextAppId, now, scope, accounts, gone, pre>>

\* A rejected deleteMany taken for a completed one.
DeleteJobAppsFailsSilently(r) ==
    /\ req[r].op = "deleteJob" /\ req[r].pc = "all" /\ "deleteMany" \in req[r].pend
    /\ req' = Settle(r, "deleteMany")
    /\ failed' = TRUE
    /\ UNCHANGED <<jobs, apps, nextJobId, nextAppId, now, scope, accounts, gone, pre>>

\* Promise.all: Application.deleteMany({ job: id }) is rejected by the storage
DeleteJobAppsFails(r) ==
    /\ req[r].op = "deleteJob" /\ req[r].pc = "all" /\ "deleteMany" \in req[r].pend
    /\ req' = Reject(r, "deleteMany")
    /\ failed' = TRUE
    /\ UNCHANGED <<jobs, apps, nextJobId, nextAppId, now, scope, accounts, gone, pre>>

\* The Applications left in place.
DeleteJobKeepsApps(r) ==
    /\ req[r].op = "deleteJob" /\ req[r].pc = "all" /\ "deleteMany" \in req[r].pend
    /\ req' = Settle(r, "deleteMany")
    /\ UNCHANGED <<jobs, apps, nextJobId, nextAppId, now, failed, scope, accounts, pre, gone>>

\* Promise.all: Application.deleteMany({ job: id })
DeleteJobApps(r) ==
    /\ req[r].op = "deleteJob" /\ req[r].pc = "all" /\ "deleteMany" \in req[r].pend
    /\ apps' = Remove(apps, {a \in DOMAIN apps : apps[a].job = req[r].jobId})
    /\ gone' = Deleted({a \in DOMAIN apps : apps[a].job = req[r].jobId}, "deleteJob")
    /\ req' = Settle(r, "deleteMany")
    /\ UNCHANGED <<jobs, nextJobId, nextAppId, now, failed, scope, accounts, pre>>

\* ------------------------------------------------------------- GET /api/jobs
\* optionalAuth: the requester, or nobody
Readers == scope.users \cup {NullUser}

\* req.query of List: page and limit (limit 0 stands for every value outside
\* 1..50), sortBy, and the type, minSalary and maxSalary filters, each given or not
JobQueries ==
    {[page |-> p, limit |-> l, sortBy |-> s] @@ f :
        p \in 1..ListJobs, l \in Limits, s \in {"createdAt", "applications"},
        f \in {EmptyBody, [type |-> "full-time"], [maxSalary |-> MaxSalary],
               [minSalary |-> 1, maxSalary |-> MaxSalary]}}

\* req.query of List with no filter: the first page, in the default order
PlainQueries == {[page |-> 1, limit |-> l, sortBy |-> "createdAt"] : l \in 1..MaxLimit}

\* The List queries of each kind
Queries(kind) == IF kind = "filters" THEN JobQueries ELSE PlainQueries

\* The validators of page and limit
ValidJobQuery(q) == q.page >= 1 /\ q.limit >= 1 /\ q.limit <= 50

\* if (minSalary || maxSalary) query["salary.min"] = {}, and $gte is added to it
\* only when minSalary is given: with maxSalary alone the condition on salary.min
\* stays the empty object
EmptyCondition(q) == Has(q, "maxSalary") /\ ~Has(q, "minSalary")

\* query: isActive, type, salary.min.$gte, salary.max.$lte; a Job's salary.min does
\* not equal the empty object
Matches(job, q) ==
    /\ job.isActive
    /\ Has(q, "type") => job.type = q.type
    /\ Has(q, "minSalary") => Has(job.salary, "min") /\ job.salary.min >= q.minSalary
    /\ Has(q, "maxSalary") => Has(job.salary, "max") /\ job.salary.max <= q.maxSalary
    /\ ~EmptyCondition(q)

Found(q) == {j \in DOMAIN jobs : Matches(jobs[j], q)}

\* sortOptions, descending: applicationsCount, or createdAt (Jobs are stamped when
\* they are inserted, so the newest has the greatest _id)
SortKey(j, q) == IF q.sortBy = "applications" THEN jobs[j].applicationsCount ELSE j

RECURSIVE Arrangements(_)
Arrangements(ids) ==
    IF ids = {} THEN {<<>>}
    ELSE UNION {{<<j>> \o rest : rest \in Arrangements(ids \ {j})} : j \in ids}

\* .sort(sortOptions): the storage engine fixes no order among documents with equal
\* sort keys, and each query is sorted on its own
Sorted(ids, q) ==
    {list \in Arrangements(ids) :
        \A i, k \in DOMAIN list : i < k => SortKey(list[i], q) >= SortKey(list[k], q)}

\* Math.ceil(total / parseInt(limit))
Ceil(total, limit) ==
    IF total % limit = 0 THEN total \div limit ELSE (total \div limit) + 1

ListJobsStart(r) ==
    \E u \in Readers, kind \in scope.queries : \E q \in Queries(kind) :
       /\ Arrive(r)
       /\ pre' = Snapshot
       /\ LET frame == [Idle EXCEPT !.op = "listJobs", !.user = u, !.body = q]
          IN IF ~ValidJobQuery(q)
             THEN req' = Finish(r, frame, "ValidationError")
             ELSE req' = [req EXCEPT ![r] = [frame EXCEPT !.pend = {"find", "count"},
                                                          !.pc = "all"]]
       /\ UNCHANGED <<jobs, apps, nextJobId, nextAppId, now, failed, scope, accounts, gone>>

\* One of the two queries of the Promise.all completes.  The empty-object condition
\* either fails the cast of the query (the handler's catch answers) or matches no
\* Job, as the Mongoose build has it.  After both queries: the annotation, for a
\* requester, or the response.
ListJobsAnswer(r, frame, call) ==
    \/ /\ EmptyCondition(frame.body)
       /\ req' = Finish(r, [frame EXCEPT !.page = <<>>, !.total = 0], "Unavailable")
       /\ failed' = TRUE
    \/ /\ UNCHANGED failed
       /\ IF frame.pend # {call}
          THEN req' = [req EXCEPT ![r] = [frame EXCEPT !.pend = @ \ {call}]]
          ELSE IF frame.user = NullUser
          THEN req' = Finish(r, frame, "OK")
          ELSE req' = [req EXCEPT ![r] = [frame EXCEPT !.pend = {}, !.pc = "status"]]

\* Promise.all: Job.find(query).sort(sortOptions).skip(skip).limit(limit).lean()
ListJobsFind(r) ==
    /\ req[r].op = "listJobs" /\ req[r].pc = "all" /\ "find" \in req[r].pend
    /\ \E list \in Sorted(Found(req[r].body), req[r].body) :
          ListJobsAnswer(r, [req[r] EXCEPT !.page = SkipLimit(list, Skip(req[r].body),
                                                               req[r].body.limit)],
                         "find")
    /\ UNCHANGED <<jobs, apps, nextJobId, nextAppId, now, scope, accounts, gone, pre>>

\* Promise.all: Job.countDocuments(query); totalJobs and totalPages of the response
ListJobsCount(r) ==
    /\ req[r].op = "listJobs" /\ req[r].pc = "all" /\ "count" \in req[r].pend
    /\ LET total == Cardinality(Found(req[r].body))
       IN ListJobsAnswer(r, [req[r] EXCEPT !.total = total,
                                           !.totalPages = Ceil(total, req[r].body.limit)],
                         "count")
    /\ UNCHANGED <<jobs, apps, nextJobId, nextAppId, now, scope, accounts, gone, pre>>

\* if (req.user): Application.find({ applicant, job: { $in: ... } }), appMap and
\* userApplicationStatus of every Job of the page
ListJobsStatus(r) ==
    /\ req[r].op = "listJobs" /\ req[r].pc = "status"
    /\ LET f == req[r]
           own(j) == Existing(j, f.user)
           appMap == [i \in DOMAIN f.page |->
                         IF own(f.page[i]) = {} THEN "null"
                         ELSE apps[CHOOSE a \in own(f.page[i]) : TRUE].status]
       IN req' = Finish(r, [f EXCEPT !.application = appMap], "OK")
    /\ UNCHANGED <<jobs, apps, nextJobId, nextAppId, now, failed, scope, accounts, gone, pre>>

\* --------------------------------------------------------- GET /api/jobs/:id
GetJobStart(r) ==
    \E u \in Readers, j \in JobIds :
       /\ Arrive(r)
       /\ j \in DOMAIN jobs => jobs[j].viewsCount < MaxViews
       /\ pre' = Snapshot
       /\ req' = [req EXCEPT ![r] = [Idle EXCEPT !.op = "getJob", !.user = u,
                                                 !.jobId = j, !.pc = "find"]]
       /\ UNCHANGED <<jobs, apps, nextJobId, nextAppId, now, failed, scope, accounts, gone>>

\* Job.findById(id).lean(), then if (!job || !job.isActive)
GetJobFind(r) ==
    /\ req[r].op = "getJob" /\ req[r].pc = "find"
    /\ LET f == req[r]
       IN IF f.jobId \notin DOMAIN jobs \/ ~jobs[f.jobId].isActive
          THEN req' = Finish(r, f, "NotFound")
          ELSE req' = [req EXCEPT ![r] = [f EXCEPT !.job = jobs[f.jobId], !.pc = "inc"]]
    /\ UNCHANGED <<jobs, apps, nextJobId, nextAppId, now, failed, scope, accounts, gone, pre>>

\* The view not counted.
GetJobNoInc(r) ==
    /\ req[r].op = "getJob" /\ req[r].pc = "inc"
    /\ LET f == req[r]
       IN IF f.user = NullUser
          THEN req' = Finish(r, f, "OK")
          ELSE req' = [req EXCEPT ![r] = [f EXCEPT !.pc = "status"]]
    /\ UNCHANGED <<jobs, apps, nextJobId, nextAppId, now, failed, scope, accounts, gone, pre>>

\* Job.findByIdAndUpdate(id, { $inc: { viewsCount: 1 } }); the response carries the
\* Job as it was read
GetJobInc(r) ==
    /\ req[r].op = "getJob" /\ req[r].pc = "inc"
    /\ LET f == req[r]
       IN /\ jobs' = IF f.jobId \in DOMAIN jobs
                     THEN [jobs EXCEPT ![f.jobId].viewsCount = @ + 1]
                     ELSE jobs
          /\ IF f.user = NullUser
             THEN req' = Finish(r, f, "OK")
             ELSE req' = [req EXCEPT ![r] = [f EXCEPT !.pc = "status"]]
    /\ UNCHANGED <<apps, nextJobId, nextAppId, now, failed, scope, accounts, gone, pre>>

\* The Application of any applicant for the Job.
GetJobStatusOfAnyone(r) ==
    /\ req[r].op = "getJob" /\ req[r].pc = "status"
    /\ LET f == req[r]
           any == {a \in DOMAIN apps : apps[a].job = f.jobId}
       IN req' = Finish(r, [f EXCEPT !.application =
                                IF any = {} THEN NullDoc
                                ELSE Select(apps[CHOOSE a \in any : TRUE], {"status"})],
                        "OK")
    /\ UNCHANGED <<jobs, apps, nextJobId, nextAppId, now, failed, scope, accounts, gone, pre>>

\* Job.findByIdAndUpdate(id, { $inc: { viewsCount: 1 } }) is rejected by the
\* storage: the catch answers 500 (the error is not a CastError)
GetJobIncFails(r) ==
    /\ req[r].op = "getJob" /\ req[r].pc = "inc"
    /\ req' = Finish(r, [req[r] EXCEPT !.threw = {"inc"}], "Unavailable")
    /\ failed' = TRUE
    /\ UNCHANGED <<jobs, apps, nextJobId, nextAppId, now, scope, accounts, gone, pre>>

\* if (req.user): Application.findOne({ job, applicant }).select("status")
GetJobStatus(r) ==
    /\ req[r].op = "getJob" /\ req[r].pc = "status"
    /\ LET f == req[r]
           own == Existing(f.jobId, f.user)
       IN req' = Finish(r, [f EXCEPT !.application =
                                IF own = {} THEN NullDoc
                                ELSE Select(apps[CHOOSE a \in own : TRUE], {"status"})],
                        "OK")
    /\ UNCHANGED <<jobs, apps, nextJobId, nextAppId, now, failed, scope, accounts, gone, pre>>

\* --------------------------------------------------------- PUT /api/jobs/:id
\* allowedUpdates, as far as the modelled Job fields go
allowedUpdates == {"isActive", "applicationDeadline", "type", "salary", "tags"}

\* All of req.body taken as the update.
WholeBody(body) == body

\* updates[key] = req.body[key] for the allowed keys
Updates(body) == [k \in DOMAIN body \cap allowedUpdates |-> body[k]]

\* { $set: updates }
SetFields(job, updates) ==
    [k \in DOMAIN job |-> IF k \in DOMAIN updates THEN updates[k] ELSE job[k]]

UpdateJobStart(r) ==
    \E u \in scope.users, j \in JobIds, kind \in scope.update : \E body \in Bodies(kind) :
       /\ Arrive(r)
       /\ pre' = Snapshot
       /\ req' = [req EXCEPT ![r] = [Idle EXCEPT !.op = "updateJob", !.user = u,
                                                 !.jobId = j, !.body = body,
                                                 !.pc = "find"]]
       /\ UNCHANGED <<jobs, apps, nextJobId, nextAppId, now, failed, scope, accounts, gone>>

\* Job.findById(id), then the authorization check
UpdateJobFind(r) ==
    /\ req[r].op = "updateJob" /\ req[r].pc = "find"
    /\ LET f == req[r]
       IN IF f.jobId \notin DOMAIN jobs
          THEN req' = Finish(r, f, "NotFound")
          ELSE IF ~MayManage(jobs[f.jobId], f.user)
          THEN req' = Finish(r, f, "Forbidden")
          ELSE req' = [req EXCEPT ![r] = [f EXCEPT !.pc = "update"]]
    /\ UNCHANGED <<jobs, apps, nextJobId, nextAppId, now, failed, scope, accounts, gone, pre>>

\* Job.findByIdAndUpdate(id, { $set: updates }, { new: true, runValidators: true }):
\* the schema validators run on the updates, the pre("save") hook does not; nothing
\* is written when the Job is gone
UpdateJobSet(r) ==
    /\ req[r].op = "updateJob" /\ req[r].pc = "update"
    /\ LET f == req[r]
           updates == WithTags(Updates(f.body))
       IN IF ~SchemaValid(updates)
          THEN /\ req' = Finish(r, f, "Unavailable")
               /\ failed' = TRUE
               /\ UNCHANGED jobs
          ELSE /\ jobs' = IF f.jobId \in DOMAIN jobs
                          THEN [jobs EXCEPT ![f.jobId] = SetFields(@, updates)]
                          ELSE jobs
               /\ req' = Finish(r, f, "OK")
               /\ UNCHANGED failed
    /\ UNCHANGED <<apps, nextJobId, nextAppId, now, scope, accounts, gone, pre>>

\* ------------------------------------------------------------ specifications
\* Requests interleave: an owner and an applicant.
Init ==
    Start([serial |-> FALSE, jobs |-> FewJobs, apps |-> MaxApps,
           users |-> {"rec", "seek"}, statuses |-> {"reviewed", "hired"},
           notes |-> {NoNotes}, create |-> {"create"}, update |-> {"update"}, queries |-> {}])

\* One request at a time, on the Job catalogue and on applying and withdrawing.
InitApply ==
    Start([serial |-> TRUE, jobs |-> MaxJobs, apps |-> MaxApps,
           users |-> Users, statuses |-> {}, notes |-> {},
           create |-> {"create"}, update |-> {"update", "foreign"}, queries |-> {}])

\* One request at a time, on the Applications of several Jobs: applying, hiring,
\* withdrawing, reading, and deleting Jobs.
InitTrack ==
    Start([serial |-> TRUE, jobs |-> MaxJobs, apps |-> MaxApps,
           users |-> Users, statuses |-> {"hired"}, notes |-> {NoNotes},
           create |-> {"plain"}, update |-> {}, queries |-> {}])

\* One request at a time, on one Job: its salary and type.
InitCatalog ==
    Start([serial |-> TRUE, jobs |-> FewJobs, apps |-> 0,
           users |-> {"rec", "seek"}, statuses |-> {}, notes |-> {},
           create |-> {"salary", "type"}, update |-> {"salary", "type"}, queries |-> {}])

\* One request at a time, on one Job: its tags.
InitTags ==
    Start([serial |-> TRUE, jobs |-> FewJobs, apps |-> 0,
           users |-> {"rec", "seek"}, statuses |-> {}, notes |-> {},
           create |-> {"tags"}, update |-> {"tags"}, queries |-> {}])

\* One request at a time: Jobs are created and listed.
InitList ==
    Start([serial |-> TRUE, jobs |-> ListJobs, apps |-> 0,
           users |-> {"rec"}, statuses |-> {}, notes |-> {},
           create |-> {"listing"}, update |-> {}, queries |-> {"filters"}])

\* One request at a time: Jobs are read by their applicants and by others.
InitRead ==
    Start([serial |-> TRUE, jobs |-> MaxJobs, apps |-> MaxApps,
           users |-> Users, statuses |-> {"hired"}, notes |-> {NoNotes},
           create |-> {"active"}, update |-> {}, queries |-> {"plain"}])

\* One request at a time, with storage calls that may fail: Jobs are read and
\* deleted.
InitFaults ==
    Start([serial |-> TRUE, jobs |-> MaxJobs, apps |-> MaxApps,
           users |-> Users, statuses |-> {}, notes |-> {},
           create |-> {"active"}, update |-> {}, queries |-> {}])

\* One request at a time: Jobs are created from well-formed and malformed bodies.
InitForm ==
    Start([serial |-> TRUE, jobs |-> MaxJobs, apps |-> 0,
           users |-> Users, statuses |-> {}, notes |-> {},
           create |-> {"form"}, update |-> {}, queries |-> {}])

\* One request at a time, on the Applications of one Job: every operation that
\* reads or writes an Application, and Job Update.
InitFrame ==
    Start([serial |-> TRUE, jobs |-> FewJobs, apps |-> MaxApps,
           users |-> Users, statuses |-> {"hired"},
           notes |-> NotesInputs, create |-> {"plain"}, update |-> {"update"},
           queries |-> {}])

\* Register requests interleave.
InitUsers ==
    Start([serial |-> FALSE, jobs |-> 0, apps |-> 0,
           users |-> {}, statuses |-> {}, notes |-> {},
           create |-> {}, update |-> {}, queries |-> {}])

\* One request at a time, on one Application and its review.
InitReview ==
    Start([serial |-> TRUE, jobs |-> FewJobs, apps |-> FewApps,
           users |-> Users, statuses |-> StatusInputs, notes |-> NotesInputs,
           create |-> {"create"}, update |-> {}, queries |-> {}])

JobCatalog ==
    \/ \E r \in Reqs : CreateJob(r)
    \/ \E r \in Reqs : UpdateJobStart(r)
    \/ \E r \in Reqs : UpdateJobFind(r)
    \/ \E r \in Reqs : UpdateJobSet(r)

JobDelete ==
    \/ \E r \in Reqs : DeleteJobStart(r)
    \/ \E r \in Reqs : DeleteJobFind(r)
    \/ \E r \in Reqs : DeleteJobDoc(r)
    \/ \E r \in Reqs : DeleteJobApps(r)

Apply ==
    \/ \E r \in Reqs : ApplyStart(r)
    \/ \E r \in Reqs : ApplyFindJob(r)
    \/ \E r \in Reqs : ApplyFindExisting(r)
    \/ \E r \in Reqs : ApplySave(r)
    \/ \E r \in Reqs : ApplyInc(r)

UpdateStatus ==
    \/ \E r \in Reqs : UpdateStatusStart(r)
    \/ \E r \in Reqs : UpdateStatusFind(r)
    \/ \E r \in Reqs : UpdateStatusPopulate(r)
    \/ \E r \in Reqs : UpdateStatusSave(r)

Withdraw ==
    \/ \E r \in Reqs : WithdrawStart(r)
    \/ \E r \in Reqs : WithdrawFind(r)
    \/ \E r \in Reqs : WithdrawDelete(r)
    \/ \E r \in Reqs : WithdrawInc(r)

GetOne ==
    \/ \E r \in Reqs : GetOneStart(r)
    \/ \E r \in Reqs : GetOneFind(r)
    \/ \E r \in Reqs : GetOnePopulate(r)

ListForJob ==
    \/ \E r \in Reqs : ListForJobStart(r)
    \/ \E r \in Reqs : ListForJobFind(r)
    \/ \E r \in Reqs : ListForJobPage(r)
    \/ \E r \in Reqs : ListForJobCount(r)

GetJob ==
    \/ \E r \in Reqs : GetJobStart(r)
    \/ \E r \in Reqs : GetJobFind(r)
    \/ \E r \in Reqs : GetJobInc(r)
    \/ \E r \in Reqs : GetJobStatus(r)

ListMine ==
    \/ \E r \in Reqs : ListMineStart(r)
    \/ \E r \in Reqs : ListMinePage(r)
    \/ \E r \in Reqs : ListMineCount(r)

JobList ==
    \/ \E r \in Reqs : ListJobsStart(r)
    \/ \E r \in Reqs : ListJobsFind(r)
    \/ \E r \in Reqs : ListJobsCount(r)
    \/ \E r \in Reqs : ListJobsStatus(r)

Next == JobCatalog \/ JobDelete \/ Apply \/ UpdateStatus \/ Withdraw

NextCount == JobCatalog \/ Apply \/ UpdateStatus \/ Withdraw

Serve == Tick \/ \E r \in Reqs : Respond(r)

NextApply == Serve \/ JobCatalog \/ JobDelete \/ Apply \/ Withdraw

NextTrack ==
    \/ \E r \in Reqs : Respond(r)
    \/ \E r \in Reqs : CreateJob(r)
    \/ JobDelete \/ Apply \/ UpdateStatus \/ Withdraw \/ GetOne \/ ListForJob

NextCatalog == (\E r \in Reqs : Respond(r)) \/ JobCatalog \/ GetJob

NextTags == (\E r \in Reqs : Respond(r)) \/ JobCatalog

NextList ==
    \/ \E r \in Reqs : Respond(r)
    \/ \E r \in Reqs : CreateJob(r)
    \/ JobList

Faults ==
    \/ \E r \in Reqs : GetJobIncFails(r)
    \/ \E r \in Reqs : DeleteJobDocFails(r)
    \/ \E r \in Reqs : DeleteJobAppsFails(r)

NextFaults ==
    \/ \E r \in Reqs : Respond(r)
    \/ \E r \in Reqs : CreateJob(r)
    \/ Apply \/ GetJob \/ JobDelete \/ Faults

NextForm == (\E r \in Reqs : Respond(r)) \/ (\E r \in Reqs : CreateJob(r))

NextFrame ==
    \/ \E r \in Reqs : Respond(r)
    \/ JobCatalog \/ Apply \/ UpdateStatus \/ Withdraw \/ GetOne \/ ListMine \/ ListForJob

NextUsers ==
    \/ \E r \in Reqs : RegisterStart(r)
    \/ \E r \in Reqs : RegisterFind(r)
    \/ \E r \in Reqs : RegisterSave(r)

NextRead ==
    \/ \E r \in Reqs : Respond(r)
    \/ \E r \in Reqs : CreateJob(r)
    \/ Apply \/ UpdateStatus \/ GetJob \/ JobList

NextReview == Serve \/ (\E r \in Reqs : CreateJob(r)) \/ Apply \/ UpdateStatus \/ Withdraw

\* Interleaved requests of every kind but the clock
Spec == Init /\ [][Next]_vars

\* Interleaved requests that leave the Jobs in place
SpecCount == Init /\ [][NextCount]_vars

SpecApply == InitApply /\ [][NextApply]_vars

SpecReview == InitReview /\ [][NextReview]_vars

SpecTrack == InitTrack /\ [][NextTrack]_vars

SpecCatalog == InitCatalog /\ [][NextCatalog]_vars

SpecTags == InitTags /\ [][NextTags]_vars

SpecList == InitList /\ [][NextList]_vars

SpecRead == InitRead /\ [][NextRead]_vars

SpecForm == InitForm /\ [][NextForm]_vars

SpecFrame == InitFrame /\ [][NextFrame]_vars

SpecUsers == InitUsers /\ [][NextUsers]_vars

SpecFaults == InitFaults /\ [][NextFaults]_vars

\* ------------------------------------------------------------------ claims
\* The frame of the request served last, one request at a time
last == req[1]

Responded(op) == last.pc = "done" /\ last.op = op

AppsOf(coll, j) == {a \in DOMAIN coll : coll[a].job = j}

Pairs(coll, j, u) == {a \in DOMAIN coll : coll[a].job = j /\ coll[a].applicant = u}

\* Job j is there or not as it was when the request arrived, with the same applicationsCount
SameCount(j) ==
    /\ (j \in DOMAIN jobs) = (j \in DOMAIN pre.jobs)
    /\ j \in DOMAIN jobs => jobs[j].applicationsCount = pre.jobs[j].applicationsCount

\* The Job is active and its deadline, if set, is not earlier than t
Open(job, t) ==
    job.isActive /\ ~(job.applicationDeadline # NullDate /\ job.applicationDeadline < t)

\* C1: in every reachable state, also while Apply, Withdraw, UpdateStatus and Job
\* Delete requests interleave, no two Applications have the same job and applicant.
C1_OnePerPair ==
    \A a, b \in DOMAIN apps :
        (apps[a].job = apps[b].job /\ apps[a].applicant = apps[b].applicant) => a = b

\* C1 witness: an Apply has passed its existence check and is about to insert,
\* while an Application of the same applicant for the same Job is already stored.
C1_Witness ==
    \E r \in Reqs :
        /\ req[r].op = "apply" /\ req[r].pc = "save"
        /\ Existing(req[r].jobId, req[r].user) # {}

\* C2 as stated: an Apply by an applicant whose Application for the Job is stored
\* always fails with Conflict and changes neither the Applications nor the count.
C2_SecondApplyConflict ==
    (/\ Responded("apply")
     /\ IsURL(last.body.resumeLink)
     /\ Pairs(pre.apps, last.jobId, last.user) # {})
    => (/\ last.res = "Conflict"
        /\ apps = pre.apps
        /\ SameCount(last.jobId))

\* C2 amended: such an Apply always fails and changes neither the Applications nor
\* the count; it fails with Conflict when the Job is still active and its deadline
\* has not passed, and with InvalidOperation when it is not.
C2_SecondApplyFails ==
    (/\ Responded("apply")
     /\ IsURL(last.body.resumeLink)
     /\ last.jobId \in DOMAIN pre.jobs
     /\ Pairs(pre.apps, last.jobId, last.user) # {})
    => (/\ last.res = IF Open(pre.jobs[last.jobId], now) THEN "Conflict"
                                                         ELSE "InvalidOperation"
        /\ apps = pre.apps
        /\ SameCount(last.jobId))

\* C2 witness: a second Apply has been answered with Conflict.
C2_Witness ==
    /\ Responded("apply")
    /\ Pairs(pre.apps, last.jobId, last.user) # {}
    /\ last.res = "Conflict"

\* C3: an Apply by the owner of an existing Job fails with InvalidOperation and
\* creates no Application, whatever the state of the Job; and no stored Application
\* has the owner of its Job as applicant.
C3_OwnerCannotApply ==
    /\ (/\ Responded("apply")
        /\ IsURL(last.body.resumeLink)
        /\ last.jobId \in DOMAIN pre.jobs
        /\ pre.jobs[last.jobId].createdBy = last.user)
       => (last.res = "InvalidOperation" /\ apps = pre.apps)
    /\ \A a \in DOMAIN apps :
          apps[a].job \in DOMAIN jobs => jobs[apps[a].job].createdBy # apps[a].applicant

\* C3 witness: the owner has applied to their own active Job, before its deadline,
\* and has been refused.
C3_Witness ==
    /\ Responded("apply")
    /\ last.jobId \in DOMAIN pre.jobs
    /\ pre.jobs[last.jobId].createdBy = last.user
    /\ Open(pre.jobs[last.jobId], now)
    /\ last.res = "InvalidOperation"

\* C4: an Apply to a Job that is inactive, or whose deadline is set and earlier than
\* the current time, fails with InvalidOperation, creates no Application and leaves
\* the count unchanged.
C4_ClosedJobRefuses ==
    (/\ Responded("apply")
     /\ IsURL(last.body.resumeLink)
     /\ last.jobId \in DOMAIN pre.jobs
     /\ ~Open(pre.jobs[last.jobId], now))
    => (/\ last.res = "InvalidOperation"
        /\ apps = pre.apps
        /\ SameCount(last.jobId))

\* C4 witness: an Apply to an active Job whose deadline has passed has been refused.
C4_Witness ==
    /\ Responded("apply")
    /\ last.jobId \in DOMAIN pre.jobs
    /\ pre.jobs[last.jobId].isActive
    /\ pre.jobs[last.jobId].applicationDeadline # NullDate
    /\ pre.jobs[last.jobId].applicationDeadline < now
    /\ pre.jobs[last.jobId].createdBy # last.user
    /\ last.res = "InvalidOperation"

\* C5: a successful Apply adds exactly one Application, for that Job and applicant,
\* pending, with reviewedAt and reviewedBy unset, and adds exactly 1 to the Job's
\* applicationsCount; every other Application and Job is as before.
C5_ApplyCreatesOne ==
    (Responded("apply") /\ last.res = "Created")
    => /\ \E a \in DOMAIN apps \ DOMAIN pre.apps :
            /\ DOMAIN apps = DOMAIN pre.apps \cup {a}
            /\ \A b \in DOMAIN pre.apps : apps[b] = pre.apps[b]
            /\ apps[a].job = last.jobId
            /\ apps[a].applicant = last.user
            /\ apps[a].status = "pending"
            /\ apps[a].reviewedAt = NullDate
            /\ apps[a].reviewedBy = NullUser
       /\ last.jobId \in DOMAIN pre.jobs
       /\ jobs = [pre.jobs EXCEPT ![last.jobId].applicationsCount = @ + 1]

\* C5 witness: an Apply has succeeded with another Application and another Job stored.
C5_Witness ==
    /\ Responded("apply")
    /\ last.res = "Created"
    /\ DOMAIN pre.apps # {}
    /\ Cardinality(DOMAIN jobs) > 1

\* C6: a Withdraw by the applicant of a stored Application fails with
\* InvalidOperation exactly when the status is hired or rejected, and then changes
\* nothing; in every other status it succeeds, removes the Application and takes
\* exactly 1 off the Job's applicationsCount.
C6_WithdrawByStatus ==
    (/\ Responded("withdraw")
     /\ last.appId \in DOMAIN pre.apps
     /\ pre.apps[last.appId].applicant = last.user)
    => LET app == pre.apps[last.appId]
       IN IF app.status \in {"hired", "rejected"}
          THEN /\ last.res = "InvalidOperation"
               /\ apps = pre.apps
               /\ jobs = pre.jobs
          ELSE /\ last.res = "OK"
               /\ apps = Remove(pre.apps, {last.appId})
               /\ app.job \in DOMAIN pre.jobs
               /\ jobs = [pre.jobs EXCEPT ![app.job].applicationsCount = @ - 1]

\* C6 witness: the applicant has withdrawn an Application that was under review.
C6_Witness ==
    /\ Responded("withdraw")
    /\ last.appId \in DOMAIN pre.apps
    /\ pre.apps[last.appId].applicant = last.user
    /\ pre.apps[last.appId].status = "interviewed"
    /\ last.res = "OK"

\* C7: an UpdateStatus by a requester who is neither the owner of the Application's
\* Job nor an admin fails with Forbidden for every status of the enum, and leaves the
\* Application (status, notes, reviewedBy, reviewedAt) as it was.
C7_StrangerForbidden ==
    (/\ Responded("updateStatus")
     /\ last.body.status \in Statuses
     /\ last.appId \in DOMAIN pre.apps
     /\ pre.apps[last.appId].job \in DOMAIN pre.jobs
     /\ pre.jobs[pre.apps[last.appId].job].createdBy # last.user
     /\ role(last.user) # "admin")
    => (/\ last.res = "Forbidden"
        /\ last.appId \in DOMAIN apps
        /\ apps[last.appId] = pre.apps[last.appId])

\* C7 witness: the applicant has asked for hired, with notes, and has been refused.
C7_Witness ==
    /\ Responded("updateStatus")
    /\ last.body.status = "hired"
    /\ last.body.notes # NoNotes
    /\ last.appId \in DOMAIN pre.apps
    /\ last.res = "Forbidden"

\* C8 as stated: once an UpdateStatus has moved an Application away from pending,
\* every later successful UpdateStatus leaves reviewedAt as that call set it.
C8_ReviewedAtSetOnce ==
    (/\ Responded("updateStatus")
     /\ last.res = "OK"
     /\ last.appId \in DOMAIN pre.apps
     /\ pre.apps[last.appId].status # "pending"
     /\ pre.apps[last.appId].reviewedAt # NullDate)
    => apps[last.appId].reviewedAt = pre.apps[last.appId].reviewedAt

\* C9 as stated: whenever no request is being served and no storage call has
\* failed, each Job's applicationsCount is the number of stored Applications of it.
C9_CountIsLive ==
    (Quiet /\ ~failed)
    => \A j \in DOMAIN jobs : jobs[j].applicationsCount = Cardinality(AppsOf(apps, j))

\* C10 as stated: no Job's applicationsCount is ever negative.
C10_CountNotNegative ==
    \A j \in DOMAIN jobs : jobs[j].applicationsCount >= 0

\* An Application with this _id referenced Job j: one that is stored, or one that
\* has been deleted
Referenced(a, j) ==
    \/ a \in DOMAIN apps /\ apps[a].job = j
    \/ a \in DOMAIN gone /\ gone[a].job = j

\* Job j has been deleted
JobDeleted(j) == j < nextJobId /\ j \notin DOMAIN jobs

\* C11: once a Delete of a Job has succeeded, a GetOne of any Application that
\* referenced that Job is answered NotFound.
C11_CascadeNotFound ==
    (/\ Responded("getOne")
     /\ \E j \in JobIds : JobDeleted(j) /\ Referenced(last.appId, j))
    => last.res = "NotFound"

\* C11 witness: a GetOne of an Application that the Delete of its Job deleted has
\* been answered NotFound.
C11_Witness ==
    /\ Responded("getOne")
    /\ last.appId \in DOMAIN gone
    /\ gone[last.appId].by = "deleteJob"
    /\ JobDeleted(gone[last.appId].job)
    /\ last.res = "NotFound"

\* The salary has both figures
HasRange(salary) == Has(salary, "min") /\ Has(salary, "max")

\* C12 as stated: every stored Job that has both salary.min and salary.max has
\* salary.min <= salary.max, whether Create or Update wrote it.
C12_SalaryOrdered ==
    \A j \in DOMAIN jobs :
        HasRange(jobs[j].salary) => jobs[j].salary.min <= jobs[j].salary.max

\* A Create by a recruiter or admin whose body gives both salary figures
CreatedWithRange ==
    /\ Responded("createJob")
    /\ isEmployerOrAdmin(last.user)
    /\ Has(last.body, "salary")
    /\ HasRange(last.body.salary)

\* C13 as stated: a Create with salary.min greater than salary.max fails with
\* ValidationError and stores no Job; a Create with salary.min <= salary.max (both
\* not negative) succeeds and stores the two figures as given; and a Get returns the
\* stored figures.
C13_CreateSalary ==
    /\ (/\ CreatedWithRange
        /\ 0 <= last.body.salary.max
        /\ last.body.salary.max < last.body.salary.min)
       => (last.res = "ValidationError" /\ jobs = pre.jobs)
    /\ (/\ CreatedWithRange
        /\ 0 <= last.body.salary.min
        /\ last.body.salary.min <= last.body.salary.max)
       => (/\ last.res = "Created"
           /\ last.jobId \in DOMAIN jobs \ DOMAIN pre.jobs
           /\ jobs[last.jobId].salary = last.body.salary)
    /\ (Responded("getJob") /\ last.res = "OK")
       => last.job.salary = pre.jobs[last.jobId].salary

\* The requester is the owner of the Job or an admin
Manages(job, u) == job.createdBy = u \/ role(u) = "admin"

\* C14: an Update leaves createdBy, applicationsCount and viewsCount of the Job as
\* they were, whatever the body; a field the body does not name is unchanged too, as
\* are the other Jobs and all Applications; and when it succeeds, isActive and
\* applicationDeadline are as the body gives them.
C14_OnlyAllowList ==
    Responded("updateJob")
    => /\ apps = pre.apps
       /\ DOMAIN jobs = DOMAIN pre.jobs
       /\ \A j \in DOMAIN jobs : j # last.jobId => jobs[j] = pre.jobs[j]
       /\ last.jobId \in DOMAIN jobs
          => \A k \in DOMAIN jobs[last.jobId] :
                /\ (k \in {"createdBy", "applicationsCount", "viewsCount"}
                      \/ k \notin DOMAIN last.body)
                   => jobs[last.jobId][k] = pre.jobs[last.jobId][k]
                /\ (last.res = "OK" /\ k \in {"isActive", "applicationDeadline"}
                      /\ k \in DOMAIN last.body)
                   => jobs[last.jobId][k] = last.body[k]

\* C14 witness: an Update whose body names isActive, createdBy and viewsCount has
\* closed a Job that has an Application.
C14_Witness ==
    /\ Responded("updateJob")
    /\ last.res = "OK"
    /\ {"isActive", "createdBy", "viewsCount"} \subseteq DOMAIN last.body
    /\ pre.jobs[last.jobId].isActive
    /\ ~jobs[last.jobId].isActive
    /\ pre.jobs[last.jobId].applicationsCount > 0

\* C15: a Job Update or Job Delete is answered NotFound when the Job does not
\* exist and Forbidden when the requester is neither its owner nor an admin, and
\* then all Jobs and Applications are as before; for the owner and for an admin it
\* succeeds, and a Delete leaves the Job removed.
C15_ManageJob ==
    (Responded("updateJob") \/ Responded("deleteJob"))
    => IF last.jobId \notin DOMAIN pre.jobs
       THEN last.res = "NotFound" /\ jobs = pre.jobs /\ apps = pre.apps
       ELSE IF ~Manages(pre.jobs[last.jobId], last.user)
       THEN last.res = "Forbidden" /\ jobs = pre.jobs /\ apps = pre.apps
       ELSE /\ last.res = "OK"
            /\ last.op = "deleteJob" => last.jobId \notin DOMAIN jobs

\* C15 witness: a recruiter who does not own the Job has asked to delete it, with
\* an Application for it stored, and has been refused.
C15_Witness ==
    /\ Responded("deleteJob")
    /\ role(last.user) = "recruiter"
    /\ last.jobId \in DOMAIN pre.jobs
    /\ AppsOf(pre.apps, last.jobId) # {}
    /\ last.res = "Forbidden"

\* C16: a Withdraw by anyone but the applicant of a stored Application, the Job's
\* owner and an admin included, is answered Forbidden and leaves the Applications and
\* the Jobs (so the applicationsCount) as they were.
C16_OnlyApplicantWithdraws ==
    (/\ Responded("withdraw")
     /\ last.appId \in DOMAIN pre.apps
     /\ pre.apps[last.appId].applicant # last.user)
    => (last.res = "Forbidden" /\ apps = pre.apps /\ jobs = pre.jobs)

\* C16 witness: an admin who owns the Job has asked to withdraw an applicant's
\* Application and has been refused.
C16_Witness ==
    /\ Responded("withdraw")
    /\ last.appId \in DOMAIN pre.apps
    /\ pre.apps[last.appId].applicant # last.user
    /\ role(last.user) = "admin"
    /\ pre.jobs[pre.apps[last.appId].job].createdBy = last.user
    /\ last.res = "Forbidden"

\* C17: a GetOne changes no stored state; it is answered NotFound when the
\* Application does not exist; when it exists (with its Job), it is answered
\* Forbidden if the requester is none of the applicant, the Job's owner and an admin,
\* and otherwise it returns the Application.
C17_GetOneAccess ==
    Responded("getOne")
    => /\ apps = pre.apps /\ jobs = pre.jobs
       /\ IF last.appId \notin DOMAIN pre.apps
          THEN last.res = "NotFound"
          ELSE LET app == pre.apps[last.appId]
               IN app.job \in DOMAIN pre.jobs
                  => IF app.applicant = last.user \/ Manages(pre.jobs[app.job], last.user)
                     THEN last.res = "OK" /\ last.application = app
                     ELSE last.res = "Forbidden" /\ last.application = NullDoc

\* C17 witness: a recruiter who does not own the Job has asked for an applicant's
\* Application and has been refused.
C17_Witness ==
    /\ Responded("getOne")
    /\ last.appId \in DOMAIN pre.apps
    /\ role(last.user) = "recruiter"
    /\ last.res = "Forbidden"

\* The query is well-formed: a page size in range and, if a status is given, one of
\* the enum
WellFormedList(q) == q.limit >= 1 /\ (Has(q, "status") => q.status \in Statuses)

\* C18: a well-formed ListForJob is answered NotFound when the Job does not exist
\* and Forbidden unless the requester is its owner or an admin; when it succeeds,
\* every Application it returns is stored, is one of the requested Job and, when a
\* status is given, has that status, and none is returned twice.
C18_ListForJobOnly ==
    (Responded("listForJob") /\ WellFormedList(last.body))
    => IF last.jobId \notin DOMAIN pre.jobs
       THEN last.res = "NotFound"
       ELSE IF ~Manages(pre.jobs[last.jobId], last.user)
       THEN last.res = "Forbidden"
       ELSE /\ last.res = "OK"
            /\ \A i \in DOMAIN last.page :
                  /\ last.page[i] \in DOMAIN apps
                  /\ apps[last.page[i]].job = last.jobId
                  /\ Has(last.body, "status")
                     => apps[last.page[i]].status = last.body.status
                  /\ \A k \in DOMAIN last.page : last.page[k] = last.page[i] => k = i

\* C18 witness: a ListForJob with a status has returned one Application while
\* another Application is stored that it does not return.
C18_Witness ==
    /\ Responded("listForJob")
    /\ last.res = "OK"
    /\ Has(last.body, "status")
    /\ Len(last.page) = 1
    /\ last.total = 1
    /\ Cardinality(DOMAIN apps) = 2

\* The character lowercased
Lower(c) == IF c = "R" THEN "r" ELSE c

\* Tag s is tag t without its leading and trailing spaces, lowercased
NormalOf(s, t) ==
    \E i \in 1..(Len(t) + 1) :
       /\ i + Len(s) - 1 <= Len(t)
       /\ \A m \in 1..Len(s) : s[m] = Lower(t[i + m - 1])
       /\ \A m \in 1..Len(t) : (m < i \/ m > i + Len(s) - 1) => t[m] = " "
       /\ s # <<>> => (s[1] # " " /\ s[Len(s)] # " ")

\* A Create or an Update with a tags list has succeeded
WroteTags ==
    /\ Responded("createJob") \/ Responded("updateJob")
    /\ last.res \in {"Created", "OK"}
    /\ Has(last.body, "tags")

\* C20: no stored Job has two equal tags, and every stored tag is its own lowercased
\* and trimmed form; after a successful Create or Update with a tags list, the stored
\* tags are exactly the lowercased and trimmed forms of the given tags; and the list
\* "R", "r", " R " is stored as the one tag "r".
C20_TagsNormalized ==
    /\ \A j \in DOMAIN jobs :
          \A i \in DOMAIN jobs[j].tags :
             /\ NormalOf(jobs[j].tags[i], jobs[j].tags[i])
             /\ \A k \in DOMAIN jobs[j].tags : jobs[j].tags[k] = jobs[j].tags[i] => k = i
    /\ WroteTags
       => LET stored == jobs[last.jobId].tags
              given  == last.body.tags
          IN /\ \A i \in DOMAIN given : \E k \in DOMAIN stored : NormalOf(stored[k], given[i])
             /\ \A k \in DOMAIN stored : \E i \in DOMAIN given : NormalOf(stored[k], given[i])
             /\ given = << <<"R">>, <<"r">>, <<" ", "R", " ">> >> => stored = << <<"r">> >>

\* C20 witness: a Create with the tags "R", "r", " R " has stored the one tag "r".
C20_Witness ==
    /\ Responded("createJob")
    /\ last.res = "Created"
    /\ Has(last.body, "tags")
    /\ last.body.tags = << <<"R">>, <<"r">>, <<" ", "R", " ">> >>
    /\ jobs[last.jobId].tags = << <<"r">> >>
\* The Jobs a List query asks for: the active ones of the requested type whose
\* salary range lies within the requested bounds
Wanted(q) ==
    {j \in DOMAIN jobs :
        /\ jobs[j].isActive
        /\ Has(q, "type") => jobs[j].type = q.type
        /\ Has(q, "minSalary")
           => Has(jobs[j].salary, "min") /\ jobs[j].salary.min >= q.minSalary
        /\ Has(q, "maxSalary")
           => Has(jobs[j].salary, "max") /\ jobs[j].salary.max <= q.maxSalary}

\* C19: a List with a page >= 1 and a page size L in range succeeds and returns only
\* active Jobs that match the filters, none twice; with N such Jobs it reports
\* totalJobs = N and totalPages = ceil(N/L), page p holds min(L, max(0, N - (p-1)*L))
\* Jobs, and no other page of the same query on the same state can hold a Job of this
\* page (so the pages 1..totalPages are disjoint and hold the N Jobs between them).
C19_ListPages ==
    (Responded("listJobs") /\ last.body.page >= 1 /\ last.body.limit >= 1)
    => LET q        == last.body
           N        == Cardinality(Wanted(q))
           L        == q.limit
           rest     == N - (q.page - 1) * L
           returned == {last.page[i] : i \in DOMAIN last.page}
       IN /\ last.res = "OK"
          /\ returned \subseteq Wanted(q)
          /\ \A i, k \in DOMAIN last.page : last.page[i] = last.page[k] => i = k
          /\ last.total = N
          /\ last.totalPages * L >= N /\ (last.totalPages - 1) * L < N
          /\ Len(last.page) = IF rest <= 0 THEN 0 ELSE IF rest < L THEN rest ELSE L
          /\ \A p \in (1..last.totalPages) \ {q.page} :
                \A list \in Sorted(Found(q), q) :
                   LET other == SkipLimit(list, (p - 1) * L, L)
                   IN \A i \in DOMAIN other : other[i] \notin returned

\* C21: a Get of a Job that is absent or inactive is answered NotFound and changes
\* nothing; a Get of an active Job succeeds, returns the Job as it was, and leaves
\* every document as it was but for that Job's viewsCount, which is one more.
C21_GetCountsView ==
    Responded("getJob")
    => LET j == last.jobId
       IN /\ apps = pre.apps
          /\ IF j \notin DOMAIN pre.jobs \/ ~pre.jobs[j].isActive
             THEN last.res = "NotFound" /\ jobs = pre.jobs
             ELSE /\ last.res = "OK"
                  /\ last.job = pre.jobs[j]
                  /\ jobs = [pre.jobs EXCEPT ![j].viewsCount = @ + 1]

\* C21 witness: an active Job has been read for the second time, beside another Job.
C21_Witness ==
    /\ Responded("getJob")
    /\ last.res = "OK"
    /\ jobs[last.jobId].viewsCount = 2
    /\ Cardinality(DOMAIN jobs) = 2

\* The status of u's own Application for Job j, "null" when u has none
OwnStatus(j, u) ==
    IF \E a \in DOMAIN apps : apps[a].job = j /\ apps[a].applicant = u
    THEN apps[CHOOSE a \in DOMAIN apps : apps[a].job = j /\ apps[a].applicant = u].status
    ELSE "null"

\* C27: a Get by an authenticated requester that succeeds carries the status of the
\* requester's own Application for the Job, or null when there is none; a List by
\* an authenticated requester that succeeds carries, for every Job of the page, the
\* status of the requester's own Application for that Job, or null.
C27_OwnStatus ==
    /\ (Responded("getJob") /\ last.res = "OK" /\ last.user # NullUser)
       => IF OwnStatus(last.jobId, last.user) = "null"
          THEN last.application = NullDoc
          ELSE last.application = [status |-> OwnStatus(last.jobId, last.user)]
    /\ (Responded("listJobs") /\ last.res = "OK" /\ last.user # NullUser)
       => /\ DOMAIN last.application = DOMAIN last.page
          /\ \A i \in DOMAIN last.page :
                last.application[i] = OwnStatus(last.page[i], last.user)

\* C27 witness: a requester has listed two Jobs, is hired for one and has no
\* Application for the other, for which another user has one.
C27_Witness ==
    /\ Responded("listJobs")
    /\ last.res = "OK"
    /\ last.user # NullUser
    /\ Len(last.page) = 2
    /\ \E i, k \in DOMAIN last.page :
          /\ last.application[i] = "hired"
          /\ last.application[k] = "null"
          /\ \E a \in DOMAIN apps : apps[a].job = last.page[k]

\* C22: a Get of an existing active Job succeeds and returns the Job, also when the
\* increment of viewsCount fails.
C22_GetSurvivesInc ==
    (Responded("getJob") /\ last.jobId \in DOMAIN pre.jobs /\ pre.jobs[last.jobId].isActive)
    => last.res = "OK" /\ last.job = pre.jobs[last.jobId]

\* C26: a Delete of a Job that reports success leaves neither the Job nor an
\* Application that references it; a Delete one of whose two deletions has failed
\* reports a failure.
C26_DeleteAllOrFailure ==
    Responded("deleteJob")
    => /\ last.res = "OK"
          => last.jobId \notin DOMAIN jobs /\ AppsOf(apps, last.jobId) = {}
       /\ last.threw # {} => last.res = "Unavailable"

\* C26 witness: the deletion of the Applications has failed after the Job was
\* deleted; an Application of the deleted Job is left and Delete has reported a
\* failure.
C26_Witness ==
    /\ Responded("deleteJob")
    /\ last.threw = {"deleteMany"}
    /\ last.res = "Unavailable"
    /\ last.jobId \notin DOMAIN jobs
    /\ AppsOf(apps, last.jobId) # {}

\* C23: no step of a Withdraw removes an Application whose stored status is hired or
\* rejected, whatever other requests are being served.
C23_WithdrawKeepsProcessed ==
    [][\A a \in DOMAIN apps \ DOMAIN apps' :
          gone'[a].by = "withdraw" => apps[a].status \notin {"hired", "rejected"}]_vars

\* C24: a successful UpdateStatus leaves the Application with the requested status
\* and with the requester as reviewedBy; its reviewedAt is the current time if it
\* was unset and the requested status is not pending, and is as it was otherwise.
C24_ReviewedAtWhenUnset ==
    (Responded("updateStatus") /\ last.res = "OK" /\ last.appId \in DOMAIN pre.apps)
    => LET old == pre.apps[last.appId]
           new == apps[last.appId]
       IN /\ new.status = last.body.status
          /\ new.reviewedBy = last.user
          /\ new.reviewedAt = IF old.reviewedAt = NullDate /\ last.body.status # "pending"
                              THEN now
                              ELSE old.reviewedAt

\* C25: an UpdateStatus to a status of the enum, by the owner of the Job of a stored
\* Application or by an admin, succeeds whatever the Application's status is and
\* leaves the Application with the requested status; and every stored Application
\* has a status of the enum.
C25_AnyStatusFromAny ==
    /\ \A a \in DOMAIN apps : apps[a].status \in Statuses
    /\ (/\ Responded("updateStatus")
        /\ last.body.status \in Statuses
        /\ last.appId \in DOMAIN pre.apps
        /\ pre.apps[last.appId].job \in DOMAIN pre.jobs
        /\ \/ pre.jobs[pre.apps[last.appId].job].createdBy = last.user
           \/ role(last.user) = "admin")
       => /\ last.res = "OK"
          /\ last.appId \in DOMAIN apps
          /\ apps[last.appId].status = last.body.status

\* C25 witness: an admin who does not own the Job has moved a hired Application
\* back to reviewed.
C25_Witness ==
    /\ Responded("updateStatus")
    /\ last.res = "OK"
    /\ last.appId \in DOMAIN pre.apps
    /\ pre.apps[last.appId].status = "hired"
    /\ apps[last.appId].status = "reviewed"
    /\ role(last.user) = "admin"
    /\ jobs[apps[last.appId].job].createdBy # last.user

\* The fields of a Create body that violate a rule of Create, the salary apart
ViolatedFields(body) ==
    {f \in {"title"} : Has(body, "title") /\ Len(trim(body.title)) \notin 3..100}
      \cup {f \in {"type"} : Has(body, "type") /\ body.type \notin JobTypes}

\* A salary figure is negative, or the minimum is above the maximum
ViolatedSalary(body) ==
    /\ Has(body, "salary")
    /\ \/ \E k \in DOMAIN body.salary : body.salary[k] < 0
       \/ /\ DOMAIN body.salary = {"min", "max"}
          /\ body.salary.min > body.salary.max

\* C28: a Create by a recruiter or an admin whose body violates a rule of Create
\* fails with ValidationError and persists no Job; the reported fields are the
\* violated ones, all of them, and the salary is among them exactly when a salary
\* figure is negative or the figures are out of order.
C28_AllViolationsListed ==
    (/\ Responded("createJob")
     /\ isEmployerOrAdmin(last.user)
     /\ (ViolatedFields(last.body) # {} \/ ViolatedSalary(last.body)))
    => /\ last.res = "ValidationError"
       /\ jobs = pre.jobs
       /\ last.errors \ {"salary"} = ViolatedFields(last.body)
       /\ "salary" \in last.errors <=> ViolatedSalary(last.body)

\* C29: whenever no request is being served, every stored Application references a
\* stored Job, however Apply and Delete requests have interleaved.
C29_ReferencesStoredJob ==
    Quiet => \A a \in DOMAIN apps : apps[a].job \in DOMAIN jobs

\* C30: no step changes the job or the applicant of a stored Application, and a step
\* that changes a stored Application changes none of its fields but status, notes,
\* reviewedBy and reviewedAt.
C30_JobAndApplicantFixed ==
    [][\A a \in DOMAIN apps \cap DOMAIN apps' :
          /\ apps'[a].job = apps[a].job
          /\ apps'[a].applicant = apps[a].applicant
          /\ DOMAIN apps'[a] = DOMAIN apps[a]
          /\ \A k \in DOMAIN apps[a] \ {"status", "notes", "reviewedBy", "reviewedAt"} :
                apps'[a][k] = apps[a][k]]_vars

\* C30 witness: an UpdateStatus with notes has succeeded on one Application while
\* another is stored, after the Job was made inactive.
C30_Witness ==
    /\ Responded("updateStatus")
    /\ Cardinality(DOMAIN apps) = 2
    /\ last.res = "OK"
    /\ last.appId \in DOMAIN pre.apps
    /\ apps[last.appId].status # pre.apps[last.appId].status
    /\ apps[last.appId].notes # pre.apps[last.appId].notes
    /\ ~jobs[apps[last.appId].job].isActive

\* The Users that have the email
WithEmail(email) == {u \in DOMAIN users : users[u].email = email}

\* C31: in every reachable state no two Users have the same email, and a step of a
\* Register whose email belongs to a User by then ends the request and creates no
\* User, however Register requests interleave.
C31_UniqueEmail ==
    /\ [](\A u, v \in DOMAIN users : users[u].email = users[v].email => u = v)
    /\ [][\A r \in Reqs :
            (req[r].op = "register" /\ req'[r] # req[r]
               /\ WithEmail(req[r].body.email) # {})
            => users' = users /\ Free(r)']_vars

\* C31 witness: two Registers with the same email have both passed the existence
\* check; one has created the User and the other is about to save.
C31_Witness ==
    \E r \in Reqs :
       /\ req[r].op = "register"
       /\ req[r].pc = "save"
       /\ Cardinality(WithEmail(req[r].body.email)) = 1

====
